---- MODULE Spec2Model ----
(***************************************************************************)
(* Model of fstools.FileDedupeRangeFull (src/fstools/fideduperange_utils.go)*)
(* as a state machine: one call of the function, from entry to its exit by *)
(* return, by returning the ioctl's error, or by panic.                    *)
(*                                                                         *)
(* Go slices are 0-based; the sequences here are 1-based, so position k of *)
(* the code is position k+1 of the model (in value.Info, req.Info, indices *)
(* and dropList alike).  All byte quantities stay far below 2^64, so the   *)
(* uint64 additions of the code do not wrap within the bounds.             *)
(*                                                                         *)
(* The module also models fstools.FiemapWalk and                           *)
(* fstools.FiemapExtentFlagsToStrings (src/fstools/fiemap_utils.go), each  *)
(* under its own specification (WalkSpec, FlagsSpec); the variables of the *)
(* functions a specification does not run stay idle.                       *)
(***************************************************************************)
EXTENDS Integers, Sequences, FiniteSets, TLC

\* ---------------------------------------------------------------- bounds
MaxTargets == 3     \* most destinations in value.Info
MaxLen == 2         \* largest value.Src_length
MaxReply == 1       \* largest Bytes_deduped the kernel reports for one target in one round
MaxRounds == 3      \* most FIDEDUPERANGE ioctls issued by one call
SrcOffsetAlt == 5   \* the non-zero value.Src_offset tried besides 0
MaxExtents == 5     \* most extents of the walked file
MaxExtLen == 2      \* the extent length tried besides 1
MaxCap == 2         \* largest extent capacity of one FIEMAP query (numExtents, scaled down)

\* ------------------------------------------------------ program constants
FILE_DEDUPE_RANGE_SAME == 0
FILE_DEDUPE_RANGE_DIFFERS == 1
EINVAL == 22
EOPNOTSUPP == 95
FIEMAP_EXTENT_LAST == 1
FIEMAP_EXTENT_UNKNOWN == 2
FIEMAP_EXTENT_DELALLOC == 4
FIEMAP_EXTENT_ENCODED == 8
FIEMAP_EXTENT_DATA_ENCRYPTED == 128
FIEMAP_EXTENT_NOT_ALIGNED == 256
FIEMAP_EXTENT_DATA_INLINE == 512
FIEMAP_EXTENT_DATA_TAIL == 1024
FIEMAP_EXTENT_UNWRITTEN == 2048
FIEMAP_EXTENT_MERGED == 4096
FIEMAP_EXTENT_SHARED == 8192

\* Status values the kernel may write for one destination: same, differs,
\* or a negated errno.
Statuses == {FILE_DEDUPE_RANGE_SAME, FILE_DEDUPE_RANGE_DIFFERS, 0 - EINVAL}

\* Call-level errors IoctlFileDedupeRange may return.
Errnos == {EINVAL, EOPNOTSUPP}

VARIABLES
    pc,           \* "entry": before line 26; "loop": at line 85; "exit": left the function
    result,       \* "running", "nil" (return nil), "error" (return err), "panic"
    err,          \* the errno returned when result = "error", else 0
    panicMsg,     \* the panic's message when result = "panic", else ""
    hasProgress,  \* progress != nil
    value,        \* the caller's *unix.FileDedupeRange
    req,          \* the local working copy (line 40)
    indices,      \* original position of each req.Info entry (line 52)
    calls,        \* the calls made to progress, in order
    ioctls,       \* the requests handed to IoctlFileDedupeRange, in order
    kernel        \* the replies of the successful ioctls, in order: kernel[r] answers ioctls[r]

\* FiemapWalk
VARIABLES
    wpc,                    \* "idle"; "query": at line 70; "deliver": at line 85; "done"
    wresult,                \* "running", "nil" (return nil), "error" (return err)
    file,                   \* the extents of the file behind fd, ascending
    numExtents,             \* line 63
    nextExtentIndexOffset,  \* line 65
    nextLogicalStart,       \* line 66
    fm,                     \* fm.Extents[0:fm.Mapped_extents] of the last query
    fmIndex,                \* the loop variable i of line 85, plus one
    queries,                \* fm.Start of the FIEMAP ioctls issued, in order
    delivered               \* the calls made to callback, in order, with what each returned
                            \* and the number of the query that mapped the extent

\* FiemapExtentFlagsToStrings
VARIABLES
    fpc,          \* "idle"; "call": before line 20; "done": returned
    flags,        \* the parameter flags
    strs          \* the returned slice

dedupeVars == <<pc, result, err, panicMsg, hasProgress, value, req, indices, calls, ioctls, kernel>>

walkVars == <<wpc, wresult, file, numExtents, nextExtentIndexOffset, nextLogicalStart,
              fm, fmIndex, queries, delivered>>

flagsVars == <<fpc, flags, strs>>

vars == <<dedupeVars, walkVars, flagsVars>>

\* FileDedupeRangeFull is not running.
DedupeIdle ==
    /\ pc = "idle" /\ result = "running" /\ err = 0 /\ panicMsg = ""
    /\ hasProgress = FALSE
    /\ value = [isNil |-> TRUE, Src_offset |-> 0, Src_length |-> 0,
                Reserved1 |-> 0, Reserved2 |-> 0, Info |-> <<>>]
    /\ req = [Src_offset |-> 0, Src_length |-> 0, Reserved1 |-> 0, Reserved2 |-> 0,
              Info |-> <<>>]
    /\ indices = <<>> /\ calls = <<>> /\ ioctls = <<>> /\ kernel = <<>>

\* FiemapWalk is not running.
WalkIdle ==
    /\ wpc = "idle" /\ wresult = "running" /\ file = <<>> /\ numExtents = 0
    /\ nextExtentIndexOffset = 0 /\ nextLogicalStart = 0
    /\ fm = <<>> /\ fmIndex = 0 /\ queries = <<>> /\ delivered = <<>>

\* FiemapExtentFlagsToStrings is not running.
FlagsIdle ==
    /\ fpc = "idle" /\ flags = {} /\ strs = <<>>

\* ------------------------------------------------------------ the caller
\* The caller's record of destination k, as runDedupe builds it: the output
\* fields are the zero value.  Handles and destination offsets are distinct
\* per destination so that a misplaced entry is visible.
InitialInfo(k) ==
    [Dest_fd |-> k, Dest_offset |-> k, Bytes_deduped |-> 0, Status |-> 0]

InitialValue(isNil, off, len, n) ==
    [isNil |-> isNil, Src_offset |-> off, Src_length |-> len,
     Reserved1 |-> 0, Reserved2 |-> 0,
     Info |-> [k \in 1..n |-> InitialInfo(k)]]

NoReq == [Src_offset |-> 0, Src_length |-> 0, Reserved1 |-> 0, Reserved2 |-> 0, Info |-> <<>>]

Init ==
    /\ pc = "entry"
    /\ result = "running"
    /\ err = 0
    /\ panicMsg = ""
    /\ hasProgress \in BOOLEAN
    /\ \E isNil \in BOOLEAN, off \in {0, SrcOffsetAlt}, len \in 0..MaxLen, n \in 0..MaxTargets :
          /\ isNil => (off = 0 /\ len = 0 /\ n = 0)
          \* a nil progress only leaves the calls out: tried with at most one destination
          /\ ~hasProgress => n <= 1
          /\ value = InitialValue(isNil, off, len, n)
    /\ req = NoReq
    /\ indices = <<>>
    /\ calls = <<>>
    /\ ioctls = <<>>
    /\ kernel = <<>>
    /\ WalkIdle /\ FlagsIdle

\* ------------------------------------------------------------- progress
ProgressCall(bytesDeduped, bytesLength, exit) ==
    [bytesDeduped |-> bytesDeduped, bytesLength |-> bytesLength, exit |-> exit]

\* if progress != nil { progress(b, l, false) }
Progress(cs, bytesDeduped, bytesLength) ==
    IF hasProgress THEN Append(cs, ProgressCall(bytesDeduped, bytesLength, FALSE)) ELSE cs

\* Deferred with the final call made on return only, not registered by defer:
\* nothing is sent here.
DeferredNotRegistered(cs) == cs

\* if progress != nil { defer progress(0, 0, true) }: runs when the function is
\* left, by return or by panic.
Deferred(cs) ==
    IF hasProgress THEN Append(cs, ProgressCall(0, 0, TRUE)) ELSE cs

\* ---------------------------------------------------------------- entry
\* Lines 26-83: the deferred final call is registered, the preconditions are
\* checked, the request is copied, indices is filled and the first progress
\* update is sent.
Enter ==
    /\ pc = "entry"
    /\ IF value.isNil
       THEN /\ pc' = "exit" /\ result' = "panic" /\ panicMsg' = "value is nil"
            /\ calls' = Deferred(calls)
            /\ UNCHANGED <<req, indices>>
       ELSE IF Len(value.Info) = 0
       THEN /\ pc' = "exit" /\ result' = "panic" /\ panicMsg' = "value.Info array empty"
            /\ calls' = Deferred(calls)
            /\ UNCHANGED <<req, indices>>
       ELSE /\ pc' = "loop"
            /\ req' = [Src_offset |-> value.Src_offset, Src_length |-> value.Src_length,
                       Reserved1 |-> value.Reserved1, Reserved2 |-> value.Reserved2,
                       Info |-> value.Info]
            /\ indices' = [i \in 1..Len(value.Info) |-> i]
            /\ calls' = Progress(calls, 0, value.Src_length)
            /\ UNCHANGED <<result, panicMsg>>
    /\ UNCHANGED <<err, hasProgress, value, ioctls, kernel>>
    /\ UNCHANGED <<walkVars, flagsVars>>

\* ---------------------------------------------------------------- ioctl
\* What one call of unix.IoctlFileDedupeRange is handed: the header and the
\* live destinations, in the order of req.Info.
IoctlRequest(r) ==
    [Src_offset |-> r.Src_offset, Src_length |-> r.Src_length,
     fds |-> [i \in 1..Len(r.Info) |-> r.Info[i].Dest_fd],
     Dest_offsets |-> [i \in 1..Len(r.Info) |-> r.Info[i].Dest_offset]]

\* What the kernel may write to the output fields of one destination: with
\* "same" any byte count; with "differs" no bytes or a byte count (the ABI
\* does not forbid one); with an errno no bytes.
ReplyEntries ==
    {e \in [Status : Statuses, Bytes_deduped : 0..MaxReply] :
        /\ e.Status = FILE_DEDUPE_RANGE_DIFFERS => e.Bytes_deduped \in {0, MaxReply}
        /\ e.Status < 0 => e.Bytes_deduped = 0}

\* The replies the kernel may give for m destinations.
Replies(m) == [1..m -> ReplyEntries]

\* req.Info after a successful ioctl: the output fields are overwritten.
AfterIoctl(info, reply) ==
    [i \in 1..Len(info) |->
        [info[i] EXCEPT !.Status = reply[i].Status,
                        !.Bytes_deduped = reply[i].Bytes_deduped]]

\* IoctlError with the error ignored and the ioctl issued again.
IoctlErrorRetried ==
    /\ pc = "loop"
    /\ Len(ioctls) < MaxRounds
    /\ ioctls' = Append(ioctls, IoctlRequest(req))
    /\ UNCHANGED <<pc, result, err, panicMsg, hasProgress, value, req, indices, calls, kernel>>
    /\ UNCHANGED <<walkVars, flagsVars>>

\* Line 85-87: the ioctl fails at call level; its error is returned.
IoctlError ==
    /\ pc = "loop"
    /\ Len(ioctls) < MaxRounds
    /\ \E e \in Errnos :
          /\ err' = e
          /\ result' = "error"
    /\ pc' = "exit"
    /\ ioctls' = Append(ioctls, IoctlRequest(req))
    /\ calls' = Deferred(calls)
    /\ UNCHANGED <<panicMsg, hasProgress, value, req, indices, kernel>>
    /\ UNCHANGED <<walkVars, flagsVars>>

\* ------------------------------------------------------- the round's checks
IsSame(e) == e.Status = FILE_DEDUPE_RANGE_SAME

SamePositions(info) == {i \in 1..Len(info) : IsSame(info[i])}

Min(S) == CHOOSE x \in S : \A y \in S : x <= y

\* DedupeBytes taken from the first entry whatever its status.
DedupeBytesOfFirstEntry(info) == info[1].Bytes_deduped

\* Lines 97-103: dedupeBytes is the byte count of the first entry with status
\* "same", and 0 when there is none.
DedupeBytes(info) ==
    IF SamePositions(info) = {} THEN 0
    ELSE info[Min(SamePositions(info))].Bytes_deduped

\* VaryingDedupeBytes comparing neighbouring entries only.
VaryingAdjacentOnly(info) ==
    \E i \in 1..(Len(info) - 1) :
        /\ IsSame(info[i]) /\ IsSame(info[i + 1])
        /\ info[i].Bytes_deduped # info[i + 1].Bytes_deduped

\* Lines 104-108: some entry with status "same" has another byte count.
VaryingDedupeBytes(info) ==
    \E i \in SamePositions(info) : info[i].Bytes_deduped # DedupeBytes(info)

\* Line 110.
DedupedMoreThanRequested(info, r) == DedupeBytes(info) > r.Src_length

\* ProgressValue reporting the remaining length.
ProgressValueRemaining(r) == r.Src_length

\* Line 118: the first argument of the round's progress update.
ProgressValue(r) == r.Src_offset

\* LengthExhausted with the test left out.
LengthExhaustedNever(r) == FALSE

\* Line 132.
LengthExhausted(r) == r.Src_length = 0

\* ------------------------------------------------------------------ drop
\* Lines 66-76, one iteration per srcIndex over the positions of value.Info.
\* An index past the end of dropList, req.Info or indices is a run-time panic
\* (index out of range).  dstIndex is the next slot to fill.
RECURSIVE DropLoop(_, _, _, _, _, _, _)
DropLoop(srcIndex, dropIndex, dstIndex, info, idx, dropList, n) ==
    IF srcIndex > n
    THEN [panic |-> FALSE,
          Info |-> SubSeq(info, 1, dstIndex - 1),
          indices |-> SubSeq(idx, 1, dstIndex - 1)]
    ELSE IF dropIndex > Len(dropList)
    THEN [panic |-> TRUE, Info |-> info, indices |-> idx]
    ELSE IF srcIndex = dropList[dropIndex]
    THEN DropLoop(srcIndex + 1, dropIndex + 1, dstIndex, info, idx, dropList, n)
    ELSE IF srcIndex # dstIndex
    THEN IF srcIndex > Len(info)
         THEN [panic |-> TRUE, Info |-> info, indices |-> idx]
         ELSE DropLoop(srcIndex + 1, dropIndex, dstIndex + 1,
                       [info EXCEPT ![dstIndex] = info[srcIndex]],
                       [idx EXCEPT ![dstIndex] = idx[srcIndex]], dropList, n)
    ELSE DropLoop(srcIndex + 1, dropIndex, dstIndex + 1, info, idx, dropList, n)

\* Drop removing nothing.
DropNothing(info, idx, dropList, n) ==
    [panic |-> FALSE, Info |-> info, indices |-> idx]

\* Lines 60-79: the closure drop; n is len(value.Info).
Drop(info, idx, dropList, n) ==
    IF Len(dropList) = 0
    THEN [panic |-> FALSE, Info |-> info, indices |-> idx]
    ELSE DropLoop(1, 1, 1, info, idx, dropList, n)

\* Lines 121-131: the positions of req.Info whose status is not "same",
\* ascending.
RECURSIVE DropListFrom(_, _)
DropListFrom(info, i) ==
    IF i > Len(info) THEN <<>>
    ELSE IF IsSame(info[i]) THEN DropListFrom(info, i + 1)
    ELSE <<i>> \o DropListFrom(info, i + 1)

DropList(info) == DropListFrom(info, 1)

\* WriteBack copying the whole working entry to the caller's record.
RECURSIVE WriteBackWholeEntry(_, _, _, _)
WriteBackWholeEntry(vinfo, info, idx, i) ==
    IF i > Len(info) THEN vinfo
    ELSE WriteBackWholeEntry(
            [vinfo EXCEPT ![idx[i]] =
                [info[i] EXCEPT !.Bytes_deduped = vinfo[idx[i]].Bytes_deduped + @]],
            info, idx, i + 1)

\* WriteBack addressing the caller's records by working position, not by
\* indices.
RECURSIVE WriteBackByPosition(_, _, _, _)
WriteBackByPosition(vinfo, info, idx, i) ==
    IF i > Len(info) THEN vinfo
    ELSE WriteBackByPosition(
            [vinfo EXCEPT ![i] =
                [@ EXCEPT !.Bytes_deduped = @ + info[i].Bytes_deduped,
                          !.Status = info[i].Status]],
            info, idx, i + 1)

\* Lines 123-124: the round's result of every live entry is added to the
\* caller's record at the entry's original position.
RECURSIVE WriteBack(_, _, _, _)
WriteBack(vinfo, info, idx, i) ==
    IF i > Len(info) THEN vinfo
    ELSE WriteBack(
            [vinfo EXCEPT ![idx[i]] =
                [@ EXCEPT !.Bytes_deduped = @ + info[i].Bytes_deduped,
                          !.Status = info[i].Status]],
            info, idx, i + 1)

\* AdvanceDest advancing the first entry only.
AdvanceDestFirstOnly(info, dedupeBytes) ==
    [i \in 1..Len(info) |->
        IF IsSame(info[i]) /\ i = 1
        THEN [info[i] EXCEPT !.Dest_offset = @ + dedupeBytes]
        ELSE info[i]]

\* Line 127: the destination offset of every "same" entry advances.
AdvanceDest(info, dedupeBytes) ==
    [i \in 1..Len(info) |->
        IF IsSame(info[i])
        THEN [info[i] EXCEPT !.Dest_offset = @ + dedupeBytes]
        ELSE info[i]]

\* AdvanceHeader shrinking the length without moving the offset.
AdvanceHeaderLengthOnly(r, dedupeBytes) ==
    [r EXCEPT !.Src_length = @ - dedupeBytes]

\* Lines 114-115.
AdvanceHeader(r, dedupeBytes) ==
    [r EXCEPT !.Src_offset = @ + dedupeBytes, !.Src_length = @ - dedupeBytes]

\* ----------------------------------------------------------------- round
\* Lines 85-140: one pass of the loop body with a successful ioctl.
Round ==
    /\ pc = "loop"
    /\ Len(ioctls) < MaxRounds
    /\ \E reply \in Replies(Len(req.Info)) :
        LET info == AfterIoctl(req.Info, reply)
            dedupeBytes == DedupeBytes(info)
            advanced == [AdvanceHeader(req, dedupeBytes) EXCEPT
                                    !.Info = AdvanceDest(info, dedupeBytes)]
            reported == Progress(calls, ProgressValue(advanced), value.Src_length)
            written == [value EXCEPT !.Info = WriteBack(value.Info, info, indices, 1)]
            dropped == Drop(advanced.Info, indices, DropList(info), Len(value.Info))
        IN
        /\ ioctls' = Append(ioctls, IoctlRequest(req))
        /\ kernel' = Append(kernel, reply)
        /\ IF VaryingDedupeBytes(info)
           THEN /\ pc' = "exit" /\ result' = "panic"
                /\ panicMsg' = "found a successfully deduped file, but had varying dedupe bytes"
                /\ req' = [req EXCEPT !.Info = info]
                /\ calls' = Deferred(calls)
                /\ UNCHANGED <<value, indices>>
           ELSE IF DedupedMoreThanRequested(info, req)
           THEN /\ pc' = "exit" /\ result' = "panic"
                /\ panicMsg' = "deduped more bytes than requested"
                /\ req' = [req EXCEPT !.Info = info]
                /\ calls' = Deferred(calls)
                /\ UNCHANGED <<value, indices>>
           ELSE IF LengthExhausted(advanced)
           THEN /\ pc' = "exit" /\ result' = "nil"
                /\ req' = advanced
                /\ value' = written
                /\ calls' = Deferred(reported)
                /\ UNCHANGED <<panicMsg, indices>>
           ELSE IF dropped.panic
           THEN /\ pc' = "exit" /\ result' = "panic"
                /\ panicMsg' = "runtime error: index out of range"
                /\ req' = [advanced EXCEPT !.Info = dropped.Info]
                /\ indices' = dropped.indices
                /\ value' = written
                /\ calls' = Deferred(reported)
           ELSE IF Len(dropped.Info) = 0
           THEN /\ pc' = "exit" /\ result' = "nil"
                /\ req' = [advanced EXCEPT !.Info = dropped.Info]
                /\ indices' = dropped.indices
                /\ value' = written
                /\ calls' = Deferred(reported)
                /\ UNCHANGED panicMsg
           ELSE /\ pc' = "loop"
                /\ req' = [advanced EXCEPT !.Info = dropped.Info]
                /\ indices' = dropped.indices
                /\ value' = written
                /\ calls' = reported
                /\ UNCHANGED <<result, panicMsg>>
    /\ UNCHANGED <<err, hasProgress>>
    /\ UNCHANGED <<walkVars, flagsVars>>

Next == Enter \/ IoctlError \/ Round

Spec == Init /\ [][Next]_vars

\* ================================================================ uint32
\* A uint32 is the set of its set bits (bit 0 the least significant), so
\* that all 32 bits are within reach: a & b is the intersection, a &^ b the
\* difference, a != 0 non-emptiness.
RECURSIVE BitsFrom(_, _)
BitsFrom(n, b) ==
    IF n = 0 THEN {}
    ELSE (IF n % 2 = 1 THEN {b} ELSE {}) \cup BitsFrom(n \div 2, b + 1)

Uint32(n) == BitsFrom(n, 0)

And(a, b) == a \cap b

\* AndNot clearing nothing.
AndNotKeeping(a, b) == a

AndNot(a, b) == a \ b

\* ============================================ FiemapExtentFlagsToStrings
\* Lines 21-36.
flagDefs ==
    << [flag |-> FIEMAP_EXTENT_LAST, name |-> "last"],
       [flag |-> FIEMAP_EXTENT_UNKNOWN, name |-> "unknown"],
       [flag |-> FIEMAP_EXTENT_DELALLOC, name |-> "delalloc"],
       [flag |-> FIEMAP_EXTENT_ENCODED, name |-> "encoded"],
       [flag |-> FIEMAP_EXTENT_DATA_ENCRYPTED, name |-> "data_encrypted"],
       [flag |-> FIEMAP_EXTENT_NOT_ALIGNED, name |-> "not_aligned"],
       [flag |-> FIEMAP_EXTENT_DATA_INLINE, name |-> "data_inline"],
       [flag |-> FIEMAP_EXTENT_DATA_TAIL, name |-> "data_tail"],
       [flag |-> FIEMAP_EXTENT_UNWRITTEN, name |-> "unwritten"],
       [flag |-> FIEMAP_EXTENT_MERGED, name |-> "merged"],
       [flag |-> FIEMAP_EXTENT_SHARED, name |-> "shared"] >>

HexChars == <<"0", "1", "2", "3", "4", "5", "6", "7",
              "8", "9", "A", "B", "C", "D", "E", "F">>

\* The value of hex digit k (digit 0 the least significant) of a uint32.
Nibble(w, k) ==
    (IF 4 * k \in w THEN 1 ELSE 0) + (IF 4 * k + 1 \in w THEN 2 ELSE 0)
       + (IF 4 * k + 2 \in w THEN 4 ELSE 0) + (IF 4 * k + 3 \in w THEN 8 ELSE 0)

RECURSIVE HexFrom(_, _)
HexFrom(w, k) ==
    IF k < 0 THEN "" ELSE HexChars[Nibble(w, k) + 1] \o HexFrom(w, k - 1)

\* Line 48: fmt.Sprintf("0x%X", flags): upper-case digits, no padding, "0"
\* for zero.
SprintfHex(w) ==
    "0x" \o (IF w = {} THEN "0"
             ELSE HexFrom(w, (CHOOSE b \in w : \A c \in w : c <= b) \div 4))

\* Lines 39-44: the loop over flagDefs from its k-th entry on.
RECURSIVE FlagsLoop(_, _, _)
FlagsLoop(k, fl, res) ==
    IF k > Len(flagDefs) THEN [flags |-> fl, result |-> res]
    ELSE FlagsLoop(k + 1,
                   AndNot(fl, Uint32(flagDefs[k].flag)),
                   IF And(fl, Uint32(flagDefs[k].flag)) # {}
                   THEN Append(res, flagDefs[k].name) ELSE res)

\* Lines 20-52.
FiemapExtentFlagsToStrings(f) ==
    LET l == FlagsLoop(1, f, <<>>)
    IN  IF l.flags # {} THEN Append(l.result, SprintfHex(l.flags)) ELSE l.result

\* The flag bits tried: the eleven known ones and five others, among them
\* the highest bit of a uint32.
TriedBits == {0, 1, 2, 3, 7, 8, 9, 10, 11, 12, 13} \cup {4, 6, 14, 16, 31}

\* Line 20: a call with some flags.
FlagsInit ==
    /\ DedupeIdle /\ WalkIdle
    /\ fpc = "call" /\ flags \in SUBSET TriedBits /\ strs = <<>>

Convert ==
    /\ fpc = "call"
    /\ strs' = FiemapExtentFlagsToStrings(flags)
    /\ fpc' = "done"
    /\ UNCHANGED flags
    /\ UNCHANGED <<dedupeVars, walkVars>>

FlagsNext == Convert

FlagsSpec == FlagsInit /\ [][FlagsNext]_vars

\* ============================================================ FiemapWalk
\* Most FIEMAP ioctls the model lets one walk issue.
MaxQueries == MaxExtents + 2

\* The file's k-th extent starts after the extents and holes before it.
RECURSIVE LogicalOf(_, _, _)
LogicalOf(gaps, lens, k) ==
    IF k = 1 THEN gaps[1]
    ELSE LogicalOf(gaps, lens, k - 1) + lens[k - 1] + gaps[k]

\* A file of n extents of positive length, ascending, not overlapping, with
\* a hole of gaps[k] before extent k; the kernel flags the final extent as
\* last when flagged.
MakeFile(n, gaps, lens, flagged) ==
    [k \in 1..n |->
        [Logical |-> LogicalOf(gaps, lens, k),
         Length |-> lens[k],
         Flags |-> IF flagged /\ k = n THEN Uint32(FIEMAP_EXTENT_LAST) ELSE {}]]

\* Lines 62-66: the call of FiemapWalk on some file.
WalkInit ==
    /\ DedupeIdle /\ FlagsIdle
    /\ wpc = "query" /\ wresult = "running"
    /\ \E n \in 0..MaxExtents, flagged \in BOOLEAN :
          \E gaps \in [1..n -> {0, 1}], lens \in [1..n -> {1, MaxExtLen}] :
              /\ n = 0 => ~flagged
              /\ file = MakeFile(n, gaps, lens, flagged)
    /\ numExtents \in 1..MaxCap
    /\ nextExtentIndexOffset = 0
    /\ nextLogicalStart = 0
    /\ fm = <<>> /\ fmIndex = 0 /\ queries = <<>> /\ delivered = <<>>

\* IoctlFiemap queried from start to the end of the file with room for count
\* extents: the file's extents that end after start, ascending, as many as
\* fit.
KernelExtents(f, start, count) ==
    LET live == SelectSeq(f, LAMBDA e : e.Logical + e.Length > start)
    IN  SubSeq(live, 1, IF Len(live) < count THEN Len(live) ELSE count)

\* Lines 70-83 with a successful ioctl.
Query ==
    /\ wpc = "query" /\ Len(queries) < MaxQueries
    /\ queries' = Append(queries, nextLogicalStart)
    /\ fm' = KernelExtents(file, nextLogicalStart, numExtents)
    /\ IF Len(fm') = 0
       THEN /\ wpc' = "done" /\ wresult' = "nil" /\ fmIndex' = 0
       ELSE /\ wpc' = "deliver" /\ fmIndex' = 1 /\ UNCHANGED wresult
    /\ UNCHANGED <<file, numExtents, nextExtentIndexOffset, nextLogicalStart, delivered>>
    /\ UNCHANGED <<dedupeVars, flagsVars>>

\* Lines 70-79 with a failing ioctl.
QueryError ==
    /\ wpc = "query" /\ Len(queries) < MaxQueries
    /\ queries' = Append(queries, nextLogicalStart)
    /\ wpc' = "done" /\ wresult' = "error"
    /\ UNCHANGED <<file, numExtents, nextExtentIndexOffset, nextLogicalStart, fm, fmIndex,
                   delivered>>
    /\ UNCHANGED <<dedupeVars, flagsVars>>

\* ExtentIndex counting within the round only.
ExtentIndexInRound(offset, i) == i

\* Line 86: i is the 0-based position in fm.Extents.
ExtentIndex(offset, i) == offset + i

\* StopsWalk never testing the last flag.
StopsWalkOnCallbackOnly(stop, extent) == stop

\* Lines 88-93: the callback asked to stop, or the extent is flagged last.
StopsWalk(stop, extent) ==
    stop \/ And(extent.Flags, Uint32(FIEMAP_EXTENT_LAST)) # {}

\* NextStart at the last extent's start.
NextStartAtLastLogical(last) == last.Logical

\* NextStart at the start of the file.
NextStartFromZero(last) == 0

\* Line 96.
NextStart(last) == last.Logical + last.Length

\* Lines 85-96: one turn of the loop over the mapped extents, and what
\* follows the loop when that was its last turn.
Deliver ==
    /\ wpc = "deliver"
    /\ LET extent == fm[fmIndex]
           index == ExtentIndex(nextExtentIndexOffset, fmIndex - 1)
       IN  \E stop \in BOOLEAN :
            /\ delivered' = Append(delivered,
                    [index |-> index, extent |-> extent, stop |-> stop,
                     round |-> Len(queries)])
            /\ IF StopsWalk(stop, extent)
               THEN /\ wpc' = "done" /\ wresult' = "nil"
                    /\ UNCHANGED <<nextExtentIndexOffset, nextLogicalStart, fmIndex>>
               ELSE IF fmIndex < Len(fm)
               THEN /\ fmIndex' = fmIndex + 1
                    /\ UNCHANGED <<wpc, wresult, nextExtentIndexOffset, nextLogicalStart>>
               ELSE /\ nextExtentIndexOffset' = nextExtentIndexOffset + Len(fm)
                    /\ nextLogicalStart' = NextStart(fm[Len(fm)])
                    /\ wpc' = "query"
                    /\ UNCHANGED <<wresult, fmIndex>>
    /\ UNCHANGED <<file, numExtents, fm, queries>>
    /\ UNCHANGED <<dedupeVars, flagsVars>>

WalkNext == Query \/ QueryError \/ Deliver

WalkSpec == WalkInit /\ [][WalkNext]_vars

\* ======================================================================
\* What the kernel reported, read off the reply log.  Destination k of the
\* caller has handle InitialInfo(k).Dest_fd; round r reports on the handles
\* ioctls[r].fds.
\* ======================================================================
PanicNil == "value is nil"
PanicEmpty == "value.Info array empty"
PanicVarying == "found a successfully deduped file, but had varying dedupe bytes"
PanicMore == "deduped more bytes than requested"
PanicIndex == "runtime error: index out of range"

Max(S) == CHOOSE x \in S : \A y \in S : x >= y

\* The rounds among the first upto in which handle fd was part of the request.
RoundsOf(fd, upto) ==
    {r \in 1..upto : \E i \in 1..Len(ioctls[r].fds) : ioctls[r].fds[i] = fd}

ReplyFor(r, fd) ==
    kernel[r][CHOOSE i \in 1..Len(ioctls[r].fds) : ioctls[r].fds[i] = fd]

\* The sum of the byte counts reported for fd in the first upto rounds.
RECURSIVE KernelBytes(_, _)
KernelBytes(fd, upto) ==
    IF upto = 0 THEN 0
    ELSE KernelBytes(fd, upto - 1)
         + (IF upto \in RoundsOf(fd, upto) THEN ReplyFor(upto, fd).Bytes_deduped ELSE 0)

\* The last status reported for fd in the first upto rounds; the caller's
\* initial status when there was none.
KernelStatus(fd, upto) ==
    IF RoundsOf(fd, upto) = {} THEN InitialInfo(fd).Status
    ELSE ReplyFor(Max(RoundsOf(fd, upto)), fd).Status

\* Every status reported for fd in the first upto rounds was "same".
AlwaysSame(fd, upto) ==
    \A r \in RoundsOf(fd, upto) : ReplyFor(r, fd).Status = FILE_DEDUPE_RANGE_SAME

\* The byte count the "same" destinations of round r reported (0 without one).
Agreed(r) ==
    LET same == {i \in 1..Len(kernel[r]) : kernel[r][i].Status = FILE_DEDUPE_RANGE_SAME}
    IN IF same = {} THEN 0 ELSE kernel[r][Min(same)].Bytes_deduped

RECURSIVE AgreedSum(_)
AgreedSum(upto) == IF upto = 0 THEN 0 ELSE AgreedSum(upto - 1) + Agreed(upto)

\* Round r's reply breaks the kernel's contract: two "same" destinations with
\* different byte counts, or a "same" byte count above the requested length.
BreaksContract(r) ==
    LET same == {i \in 1..Len(kernel[r]) : kernel[r][i].Status = FILE_DEDUPE_RANGE_SAME}
    IN \/ \E i, j \in same : kernel[r][i].Bytes_deduped # kernel[r][j].Bytes_deduped
       \/ \E i \in same : kernel[r][i].Bytes_deduped > ioctls[r].Src_length

\* The rounds whose results the function took over: all the successful
\* ioctls but one rejected by the checks of lines 97-112.
CompletedRounds ==
    IF result = "panic" /\ panicMsg \in {PanicVarying, PanicMore}
    THEN Len(kernel) - 1 ELSE Len(kernel)

FinalCalls == {i \in 1..Len(calls) : calls[i].exit}
UpdateCalls == {i \in 1..Len(calls) : ~calls[i].exit}

\* ----------------------------------------------------------------------
\* C1: with a non-nil progress callback, once the function is left (by
\* return nil, by return of the ioctl's error, or by any panic) the callback
\* has been called with exit=true exactly once and that call is the last
\* one; while the function runs no call with exit=true has been made.
C1_FinalExactlyOnceAndLast ==
    hasProgress =>
        /\ pc = "exit" => (FinalCalls = {Len(calls)} /\ Len(calls) >= 1)
        /\ pc # "exit" => FinalCalls = {}

\* C1 witness: the call is left by the invariant panic on varying byte
\* counts, after at least one completed round, with a progress callback.
C1_Witness ==
    /\ hasProgress /\ pc = "exit" /\ result = "panic" /\ panicMsg = PanicVarying
    /\ Len(kernel) >= 2 /\ FinalCalls = {Len(calls)}

\* ----------------------------------------------------------------------
\* C2: whatever destinations report a status other than "same", in whatever
\* round, the call does not abort on their account: it is never left by a
\* run-time panic, only by return or by one of the four stated panics.
C2_ResilientToDestinationFailures ==
    pc = "exit" =>
        \/ result \in {"nil", "error"}
        \/ result = "panic" /\ panicMsg \in {PanicNil, PanicEmpty, PanicVarying, PanicMore}

\* ----------------------------------------------------------------------
\* C3: with two destinations, one reporting "same" in every round and one
\* reporting "differs" in some round, no call-level error and no breach of
\* the kernel's contract, the call returns with the first at status "same"
\* and the requested length as accumulated bytes, and the second at status
\* "differs" with the bytes the kernel reported for it, whichever of the two
\* is listed first.
C3_SameAndDiffersReported ==
    \A s, d \in 1..Len(value.Info) :
        ( /\ pc = "exit" /\ result # "error"
          /\ ~(result = "panic" /\ panicMsg \in {PanicVarying, PanicMore})
          /\ Len(value.Info) = 2 /\ s # d
          /\ AlwaysSame(s, Len(kernel))
          /\ KernelStatus(d, Len(kernel)) = FILE_DEDUPE_RANGE_DIFFERS )
        => /\ result = "nil"
           /\ value.Info[s].Status = FILE_DEDUPE_RANGE_SAME
           /\ value.Info[s].Bytes_deduped = value.Src_length
           /\ value.Info[d].Status = FILE_DEDUPE_RANGE_DIFFERS
           /\ value.Info[d].Bytes_deduped = KernelBytes(d, Len(kernel))

\* ----------------------------------------------------------------------
ZeroLengthCall ==
    ~value.isNil /\ value.Src_length = 0 /\ Len(value.Info) >= 1

\* C4 as stated: a call with source length 0 and at least one target is
\* left without any dedup ioctl issued and with every target's status and
\* accumulated bytes at their initial values.
C4_ZeroLengthZeroRounds ==
    (ZeroLengthCall /\ pc = "exit") =>
        /\ Len(ioctls) = 0
        /\ hasProgress => FinalCalls = {Len(calls)}
        /\ \A k \in 1..Len(value.Info) : value.Info[k] = InitialInfo(k)

\* C4 amended: a call with source length 0 and at least one target issues
\* exactly one dedup ioctl (of length 0) and is left right after it, with the
\* final callback fired once; when it returns nil every target's record holds
\* the status and the byte count the kernel reported in that one round (0
\* bytes for a target reporting "same"), and when it is left by the ioctl's
\* error or by a panic every record is at its initial value.
C4_ZeroLengthOneRound ==
    ZeroLengthCall =>
        /\ pc = "loop" => Len(ioctls) = 0
        /\ pc = "exit" =>
            /\ Len(ioctls) = 1
            /\ hasProgress => FinalCalls = {Len(calls)}
            /\ result = "nil" =>
                 \A k \in 1..Len(value.Info) :
                    /\ value.Info[k].Status = kernel[1][k].Status
                    /\ value.Info[k].Bytes_deduped = kernel[1][k].Bytes_deduped
                    /\ value.Info[k].Status = FILE_DEDUPE_RANGE_SAME
                         => value.Info[k].Bytes_deduped = 0
            /\ result # "nil" =>
                 \A k \in 1..Len(value.Info) : value.Info[k] = InitialInfo(k)

\* C4 witness: a zero-length call with two targets has returned nil after its
\* one ioctl, and a target's status is no longer the initial one.
C4_Witness ==
    /\ ZeroLengthCall /\ pc = "exit" /\ result = "nil" /\ hasProgress
    /\ Len(value.Info) = 2 /\ Len(ioctls) = 1
    /\ value.Info[2].Status = FILE_DEDUPE_RANGE_DIFFERS
    /\ value.Info[1].Status = FILE_DEDUPE_RANGE_SAME

\* ----------------------------------------------------------------------
\* C5: no target's accumulated bytes deduped in the caller's record ever
\* exceeds the requested source length, whatever the kernel replies.
C5_AccumulatedWithinLength ==
    ~value.isNil =>
        \A k \in 1..Len(value.Info) : value.Info[k].Bytes_deduped <= value.Src_length

\* ----------------------------------------------------------------------
\* The working request exists: the call got past its entry checks.
Started == pc = "loop" \/ (pc = "exit" /\ Len(ioctls) > 0)

NoTargetDropped == Len(req.Info) = Len(value.Info)

\* C6 as stated: whenever the call returns (nil or the ioctl's error) and
\* no target was dropped, the agreed byte counts sum to the requested length.
C6_ReturnsWithFullSum ==
    (pc = "exit" /\ result \in {"nil", "error"} /\ NoTargetDropped)
        => AgreedSum(Len(kernel)) = value.Src_length

\* C6 amended: after every completed round the remaining length is the
\* requested length minus the sum of the agreed byte counts and the source
\* offset is the original offset plus that sum; if no target is ever dropped
\* and the call returns nil (not the ioctl's error), the sum is the requested
\* length exactly.
C6_OffsetLengthBookkeeping ==
    Started =>
        /\ req.Src_length = value.Src_length - AgreedSum(CompletedRounds)
        /\ req.Src_offset = value.Src_offset + AgreedSum(CompletedRounds)
        /\ req.Src_offset + req.Src_length = value.Src_offset + value.Src_length
        /\ (pc = "exit" /\ result = "nil" /\ NoTargetDropped)
              => AgreedSum(Len(kernel)) = value.Src_length

\* C6 witness: a call from a non-zero offset returned nil after two rounds of
\* one byte each with no target dropped.
C6_Witness ==
    /\ pc = "exit" /\ result = "nil" /\ NoTargetDropped
    /\ value.Src_offset > 0 /\ value.Src_length = 2 /\ Len(value.Info) >= 2
    /\ Len(kernel) = 2 /\ Agreed(1) = 1 /\ Agreed(2) = 1

\* ----------------------------------------------------------------------
\* C7: every non-final progress call reports as total the requested length
\* and as bytes processed the source bytes processed so far (the sum of the
\* agreed byte counts of the rounds completed before it), which never
\* exceeds the total, for a zero and for a non-zero source offset.
C7_ProgressIsCumulative ==
    \A i \in UpdateCalls :
        /\ calls[i].bytesLength = value.Src_length
        /\ calls[i].bytesDeduped = AgreedSum(i - 1)
        /\ calls[i].bytesDeduped <= calls[i].bytesLength

\* ----------------------------------------------------------------------
\* C8 as stated: over the whole sequence of progress calls, the final call
\* included, bytesProcessed never decreases from a call to the next, and
\* the last call of a finished invocation carries exit=true.
C8_WholeSequenceMonotone ==
    hasProgress =>
        /\ \A i, j \in 1..Len(calls) : i < j => calls[i].bytesDeduped <= calls[j].bytesDeduped
        /\ pc = "exit" => (Len(calls) >= 1 /\ calls[Len(calls)].exit)

\* C8 amended: over the non-final progress calls bytesProcessed never
\* decreases from a call to the next; the last call of a finished invocation
\* carries exit=true, with bytesProcessed 0 and totalBytes 0 whatever was
\* reported before.
C8_UpdatesMonotoneFinalLast ==
    hasProgress =>
        /\ \A i, j \in UpdateCalls : i < j => calls[i].bytesDeduped <= calls[j].bytesDeduped
        /\ pc = "exit" =>
            /\ Len(calls) >= 1 /\ calls[Len(calls)].exit
            /\ calls[Len(calls)].bytesDeduped = 0 /\ calls[Len(calls)].bytesLength = 0

\* C8 witness: a finished invocation whose updates rose twice before the
\* final call.
C8_Witness ==
    /\ hasProgress /\ pc = "exit" /\ Len(calls) = 4
    /\ calls[1].bytesDeduped < calls[2].bytesDeduped
    /\ calls[2].bytesDeduped < calls[3].bytesDeduped
    /\ calls[4].exit

\* ----------------------------------------------------------------------
\* C9: an ioctl that fails at call level is the last one issued and ends the
\* call with that error: at most one issued ioctl ever lacks a reply, and
\* only in a call that returned the error; then nothing further can happen,
\* no progress update was sent for the failed round, and every caller's
\* record holds the status and accumulated bytes of the successful rounds.
C9_IoctlErrorReturnsImmediately ==
    /\ Len(ioctls) - Len(kernel) = (IF result = "error" THEN 1 ELSE 0)
    /\ result = "error" =>
        /\ pc = "exit" /\ err \in Errnos
        /\ ~ENABLED Next
        /\ hasProgress => Cardinality(UpdateCalls) = 1 + Len(kernel)
        /\ \A k \in 1..Len(value.Info) :
              /\ value.Info[k].Status = KernelStatus(k, Len(kernel))
              /\ value.Info[k].Bytes_deduped = KernelBytes(k, Len(kernel))

\* C9 witness: the ioctl of the third round failed after two successful
\* rounds that left bytes in a caller's record.
C9_Witness ==
    /\ result = "error" /\ hasProgress /\ Len(kernel) = 2 /\ Len(ioctls) = 3
    /\ \E k \in 1..Len(value.Info) : value.Info[k].Bytes_deduped > 0

\* ----------------------------------------------------------------------
\* C10: a round whose reply has two "same" targets with different byte
\* counts (wherever they stand, whatever stands between them) or a "same"
\* byte count above the remaining length is the call's last: the call
\* panics in it, with the source offset, the remaining length and every
\* destination offset as they were requested in that round, no progress
\* update for it, and the caller's records as the rounds before left them.
\* No other round breaks the contract and no other round ends in these panics.
C10_ContractBreachAborts ==
    /\ \A r \in 1..Len(kernel) :
          BreaksContract(r) <=>
              (r = Len(kernel) /\ result = "panic" /\ panicMsg \in {PanicVarying, PanicMore})
    /\ (result = "panic" /\ panicMsg \in {PanicVarying, PanicMore}) =>
          LET r == Len(kernel) IN
          /\ pc = "exit" /\ r >= 1 /\ Len(ioctls) = r
          /\ req.Src_offset = ioctls[r].Src_offset
          /\ req.Src_length = ioctls[r].Src_length
          /\ [i \in 1..Len(req.Info) |-> req.Info[i].Dest_offset] = ioctls[r].Dest_offsets
          /\ hasProgress => Cardinality(UpdateCalls) = r
          /\ \A k \in 1..Len(value.Info) :
                /\ value.Info[k].Status = KernelStatus(k, r - 1)
                /\ value.Info[k].Bytes_deduped = KernelBytes(k, r - 1)

\* C10 witness: in a second round the first and the third target report
\* "same" with different byte counts and the one between them does not
\* report "same"; the call has panicked.
C10_Witness ==
    /\ result = "panic" /\ panicMsg = PanicVarying /\ Len(kernel) = 2
    /\ Len(kernel[2]) = 3
    /\ kernel[2][1].Status = FILE_DEDUPE_RANGE_SAME
    /\ kernel[2][2].Status # FILE_DEDUPE_RANGE_SAME
    /\ kernel[2][3].Status = FILE_DEDUPE_RANGE_SAME
    /\ kernel[2][1].Bytes_deduped # kernel[2][3].Bytes_deduped
    /\ kernel[1][1].Bytes_deduped = 1

\* ----------------------------------------------------------------------
\* C11: no step of the call changes the caller's request header (source
\* offset, source length, reserved fields), the number or order of the
\* caller's targets, or a target's destination handle or destination
\* offset; only Status and Bytes_deduped of the targets are written.
C11_CallerInputsUnchanged ==
    [][ /\ value'.isNil = value.isNil
        /\ value'.Src_offset = value.Src_offset
        /\ value'.Src_length = value.Src_length
        /\ value'.Reserved1 = value.Reserved1
        /\ value'.Reserved2 = value.Reserved2
        /\ Len(value'.Info) = Len(value.Info)
        /\ \A k \in 1..Len(value.Info) :
              /\ value'.Info[k].Dest_fd = value.Info[k].Dest_fd
              /\ value'.Info[k].Dest_offset = value.Info[k].Dest_offset ]_vars

\* C11 witness: the call returned nil after two rounds of one byte from a
\* non-zero offset; the working copy moved on, results were written.
C11_Witness ==
    /\ pc = "exit" /\ result = "nil" /\ Len(kernel) = 2 /\ Len(value.Info) = 2
    /\ value.Src_offset > 0 /\ req.Src_offset = value.Src_offset + 2
    /\ req.Src_length = 0 /\ value.Src_length = 2
    /\ value.Info[2].Bytes_deduped = 2
    /\ req.Info[2].Dest_offset = value.Info[2].Dest_offset + 2

\* ----------------------------------------------------------------------
Ceil(a, b) == (a + b - 1) \div b

\* In every round so far the kernel deduped min(remaining, cap) bytes for
\* every target, with status "same".
CapKernel(cap) ==
    \A r \in 1..Len(kernel) : \A i \in 1..Len(kernel[r]) :
        /\ kernel[r][i].Status = FILE_DEDUPE_RANGE_SAME
        /\ kernel[r][i].Bytes_deduped =
              (IF ioctls[r].Src_length < cap THEN ioctls[r].Src_length ELSE cap)

PositionOf(fd) == CHOOSE k \in 1..Len(value.Info) : value.Info[k].Dest_fd = fd

FdsOf(info) == {info[i].Dest_fd : i \in 1..Len(info)}

\* C16: a target that reported a status other than "same" in round r is in
\* no later ioctl of the call nor in the working request of a next round,
\* and from the end of round r on its caller's record holds the status of
\* round r and the bytes accumulated up to round r: no later round writes it.
C16_DroppedTargetsFrozen ==
    \A r \in 1..Len(kernel) : \A i \in 1..Len(kernel[r]) :
        kernel[r][i].Status # FILE_DEDUPE_RANGE_SAME =>
            LET fd == ioctls[r].fds[i] IN
            /\ \A r2 \in (r + 1)..Len(ioctls) :
                  \A j \in 1..Len(ioctls[r2].fds) : ioctls[r2].fds[j] # fd
            /\ pc = "loop" => fd \notin FdsOf(req.Info)
            /\ r <= CompletedRounds =>
                  /\ value.Info[PositionOf(fd)].Status = kernel[r][i].Status
                  /\ value.Info[PositionOf(fd)].Bytes_deduped = KernelBytes(fd, r)

\* C16 witness: of three targets the first and the third were dropped in
\* round 1; the second, moved to the first slot, went through a later round
\* that deduped a byte.
C16_Witness ==
    /\ Len(value.Info) = 3 /\ Len(ioctls) >= 2 /\ CompletedRounds >= 2
    /\ ioctls[2].fds = <<2>>
    /\ value.Info[1].Status # FILE_DEDUPE_RANGE_SAME
    /\ value.Info[3].Status # FILE_DEDUPE_RANGE_SAME
    /\ value.Info[2].Bytes_deduped > 0

\* ----------------------------------------------------------------------
\* C17: in every ioctl of the call, and in the working request at the start
\* of a next round, every target's destination offset has advanced from its
\* original destination offset by what the source offset has advanced from
\* the original source offset.
C17_DestinationsInLockstep ==
    /\ \A r \in 1..Len(ioctls) : \A i \in 1..Len(ioctls[r].fds) :
          ioctls[r].Dest_offsets[i] - value.Info[PositionOf(ioctls[r].fds[i])].Dest_offset
             = ioctls[r].Src_offset - value.Src_offset
    /\ pc = "loop" =>
          \A i \in 1..Len(req.Info) :
             req.Info[i].Dest_offset - value.Info[PositionOf(req.Info[i].Dest_fd)].Dest_offset
                = req.Src_offset - value.Src_offset

\* C17 witness: a round starts with the second of three targets as the only
\* live one, in the first slot, after a byte was deduped.
C17_Witness ==
    /\ pc = "loop" /\ Len(value.Info) = 3 /\ indices = <<2>>
    /\ req.Src_offset = value.Src_offset + 1
    /\ req.Info[1].Dest_fd = 2

\* ----------------------------------------------------------------------
\* A reply with progress: a target reports a status other than "same", or
\* the "same" targets deduped at least one byte.
Progressing(reply) ==
    \/ \E i \in 1..Len(reply) : reply[i].Status # FILE_DEDUPE_RANGE_SAME
    \/ \E i \in 1..Len(reply) : reply[i].Bytes_deduped >= 1

Measure(r) == r.Src_length + Len(r.Info)

\* C18: a successful round with progress that goes on to a next round
\* leaves remaining length + live targets strictly smaller, so rounds with
\* progress are finitely many; a successful round without progress (all
\* "same", zero bytes) on a non-zero remaining length always goes on to a
\* next round with the identical request.
C18_ProgressOrStall ==
    [][ Len(kernel') = Len(kernel) + 1 =>
          LET reply == kernel'[Len(kernel')] IN
          /\ (Progressing(reply) /\ pc' = "loop") => Measure(req') < Measure(req)
          /\ (~Progressing(reply) /\ req.Src_length > 0) =>
                (pc' = "loop" /\ IoctlRequest(req') = IoctlRequest(req)) ]_vars

\* C18 witness: two rounds of all "same" with zero bytes were answered and
\* the identical request is up for a third time.
C18_Witness ==
    /\ pc = "loop" /\ Len(kernel) = 2 /\ Len(value.Info) = 2
    /\ ~Progressing(kernel[1]) /\ ~Progressing(kernel[2])
    /\ ioctls[1] = ioctls[2] /\ IoctlRequest(req) = ioctls[1]

\* ============================================================ FiemapWalk
HasLast(extent) == 0 \in extent.Flags

Flagged == Len(file) >= 1 /\ HasLast(file[Len(file)])

NeverStopped == \A k \in 1..Len(delivered) : ~delivered[k].stop

WalkDone == wpc = "done"

\* C13: on a file of n >= 1 extents whose final extent is flagged last,
\* with capacity c >= 1, a callback that never stops and no failing ioctl,
\* the callback gets extent k of the file with index k-1, in order; query r
\* is issued when (r-1)*c extents were delivered and its round delivers the
\* next min(c, rest); the walk ends with nil after n callbacks and exactly
\* ceil(n/c) queries.
C13_QueriesAndIndices ==
    (Flagged /\ NeverStopped /\ wresult # "error") =>
        /\ Len(delivered) <= Len(file)
        /\ \A k \in 1..Len(delivered) :
              delivered[k].index = k - 1 /\ delivered[k].extent = file[k]
        /\ wpc = "query" =>
              /\ Len(delivered) = Len(queries) * numExtents
              /\ Len(delivered) < Len(file)
        /\ wpc = "deliver" => Len(queries) = (Len(delivered) \div numExtents) + 1
        /\ WalkDone =>
              /\ wresult = "nil"
              /\ Len(delivered) = Len(file)
              /\ Len(queries) = Ceil(Len(file), numExtents)
        /\ ~WalkDone => ENABLED WalkNext

\* C13 witness: five extents with capacity 2: three queries, rounds of
\* 2 + 2 + 1 callbacks.
C13_Witness ==
    /\ WalkDone /\ wresult = "nil" /\ Flagged /\ NeverStopped
    /\ Len(file) = 5 /\ numExtents = 2
    /\ Len(queries) = 3 /\ Len(delivered) = 5 /\ Len(fm) = 1
    /\ delivered[5].index = 4

\* C14: a callback that returned true, or that was passed an extent flagged
\* last, is the last callback of the walk, and the walk has returned nil
\* with no query after the one whose round that callback belongs to; the
\* extent flagged last is passed to the callback at most once.
C14_StopsImmediately ==
    /\ \A k \in 1..Len(delivered) :
          (delivered[k].stop \/ HasLast(delivered[k].extent)) =>
              /\ k = Len(delivered)
              /\ WalkDone /\ wresult = "nil"
              /\ ~ENABLED WalkNext
              /\ Len(queries) = (delivered[k].index \div numExtents) + 1
    /\ Cardinality({k \in 1..Len(delivered) : HasLast(delivered[k].extent)}) <= 1

\* C14 witness: with capacity 2 the callback stopped the walk at the first
\* extent of the second round; the round's second extent was not delivered.
C14_Witness ==
    /\ WalkDone /\ wresult = "nil" /\ numExtents = 2 /\ Len(file) = 5
    /\ Len(delivered) = 3 /\ delivered[3].stop /\ ~HasLast(delivered[3].extent)
    /\ Len(fm) = 2 /\ fmIndex = 1 /\ Len(queries) = 2

\* C14 witness, second case: the extent flagged last ended the walk.
C14_WitnessLast ==
    /\ WalkDone /\ wresult = "nil" /\ NeverStopped
    /\ Len(delivered) = 4 /\ HasLast(delivered[4].extent) /\ numExtents = 2

\* The position in delivered of the last extent of round r, 0 if none.
LastOfRound(r) ==
    Max({0} \cup {k \in 1..Len(delivered) : delivered[k].round = r})

\* C15: the delivered extents are the file's extents from the first on, none
\* twice and none skipped, so each starts at or after the end of the one
\* before it, across rounds too; the first query starts at 0 and every later
\* query at the end (Logical + Length) of the last extent of the round
\* before it.
C15_AscendingNoOverlap ==
    /\ Len(delivered) <= Len(file)
    /\ \A k \in 1..Len(delivered) : delivered[k].extent = file[k]
    /\ \A k \in 1..(Len(delivered) - 1) :
          delivered[k].extent.Logical + delivered[k].extent.Length
             <= delivered[k + 1].extent.Logical
    /\ \A k \in 1..(Len(delivered) - 1) :
          delivered[k].round <= delivered[k + 1].round
    /\ queries # <<>> => queries[1] = 0
    /\ \A r \in 2..Len(queries) :
          /\ LastOfRound(r - 1) # 0
          /\ queries[r] = delivered[LastOfRound(r - 1)].extent.Logical
                            + delivered[LastOfRound(r - 1)].extent.Length

\* C15 witness: three rounds of capacity 2 over five extents, where the
\* last extent of the first round has length 2 and a hole follows it.
C15_Witness ==
    /\ WalkDone /\ wresult = "nil" /\ numExtents = 2 /\ Len(delivered) = 5
    /\ Len(queries) = 3
    /\ delivered[2].extent.Length = 2
    /\ delivered[3].extent.Logical > queries[2]
    /\ queries[3] > queries[2] + 2

\* C19: unless an ioctl fails, the walk over a file of n extents ends with
\* nil after at most ceil(n/c) + 1 queries and at most n callbacks, and is
\* never left without a next step before that; a query that maps no extent
\* ends it without a callback; on a file with no extent it ends after one
\* query and no callback; when the final extent is not flagged last and the
\* callback never stops, it ends after all n callbacks and one more, empty,
\* query.
C19_WalkTerminates ==
    /\ Len(queries) <= Ceil(Len(file), numExtents) + 1
    /\ Len(delivered) <= Len(file)
    /\ ~WalkDone => ENABLED WalkNext
    /\ (WalkDone /\ wresult # "error") =>
          /\ wresult = "nil"
          /\ fm = <<>> => Len(delivered) = nextExtentIndexOffset
          /\ Len(file) = 0 => (Len(queries) = 1 /\ delivered = <<>>)
          /\ (Len(file) >= 1 /\ ~Flagged /\ NeverStopped) =>
                /\ Len(delivered) = Len(file)
                /\ Len(queries) = Ceil(Len(file), numExtents) + 1
                /\ fm = <<>>

\* C19 witness: four extents, the final one not flagged last, capacity 2:
\* two full rounds and a third, empty query.
C19_Witness ==
    /\ WalkDone /\ wresult = "nil" /\ ~Flagged /\ NeverStopped
    /\ Len(file) = 4 /\ numExtents = 2
    /\ Len(delivered) = 4 /\ Len(queries) = 3 /\ fm = <<>>

\* ============================================ FiemapExtentFlagsToStrings
\* The known flag bits with their names, in the order of the table.
KnownFlagNames ==
    << <<0, "last">>, <<1, "unknown">>, <<2, "delalloc">>, <<3, "encoded">>,
       <<7, "data_encrypted">>, <<8, "not_aligned">>, <<9, "data_inline">>,
       <<10, "data_tail">>, <<11, "unwritten">>, <<12, "merged">>, <<13, "shared">> >>

KnownBits == {KnownFlagNames[k][1] : k \in 1..Len(KnownFlagNames)}

\* The number whose set bits are those of w from bit base on, 16 of them.
RECURSIVE Half(_, _, _)
Half(w, base, b) ==
    IF b > 15 THEN 0
    ELSE (IF base + b \in w THEN 2 ^ b ELSE 0) + Half(w, base, b + 1)

RECURSIVE HexOfNat(_)
HexOfNat(n) ==
    IF n < 16 THEN HexChars[n + 1] ELSE HexOfNat(n \div 16) \o HexChars[(n % 16) + 1]

\* The hexadecimal numeral of a uint32, from the numbers of its two halves.
HexOfWord(w) ==
    LET hi == Half(w, 16, 0)
        lo == Half(w, 0, 0)
    IN  IF hi = 0 THEN HexOfNat(lo)
        ELSE HexOfNat(hi) \o HexChars[(lo \div 4096) + 1]
                \o HexChars[((lo \div 256) % 16) + 1]
                \o HexChars[((lo \div 16) % 16) + 1] \o HexChars[(lo % 16) + 1]

\* C20: the result lists the names of the known flag bits set in flags, in
\* the order of the table, one each, and then, exactly when flags has a bit
\* outside the known ones, one more entry: "0x" and the upper-case
\* hexadecimal numeral of flags with the known bits cleared.
C20_NamesThenResidualHex ==
    fpc = "done" =>
        LET names == SelectSeq(KnownFlagNames, LAMBDA e : e[1] \in flags)
            residual == flags \ KnownBits
        IN  /\ Len(strs) = Len(names) + (IF residual = {} THEN 0 ELSE 1)
            /\ \A k \in 1..Len(names) : strs[k] = names[k][2]
            /\ residual # {} => strs[Len(strs)] = "0x" \o HexOfWord(residual)

\* C20 witness: last, encoded and shared with the unknown bits 4, 6 and 31.
C20_Witness ==
    /\ fpc = "done" /\ flags = {0, 3, 4, 6, 13, 31}
    /\ strs = <<"last", "encoded", "shared", "0x80000050">>

\* ================================================== indices and drop
\* At the start of a round the working list and indices have one length,
\* indices is strictly increasing within the positions of value.Info, and
\* working entry i carries the handle of the caller's entry indices[i].
ListsAligned ==
    /\ Len(req.Info) = Len(indices)
    /\ \A i \in 1..Len(indices) : indices[i] \in 1..Len(value.Info)
    /\ \A i \in 1..(Len(indices) - 1) : indices[i] < indices[i + 1]
    /\ \A i \in 1..Len(req.Info) :
          req.Info[i].Dest_fd = value.Info[indices[i]].Dest_fd

\* C21: every round starts with the working list and indices aligned, and
\* drop keeps them so for every drop list without ever indexing dropList,
\* req.Info or indices past its length, so the call is never left by an
\* index-out-of-range panic.
C21_DropKeepsListsAligned ==
    /\ pc = "loop" => ListsAligned
    /\ ~(pc = "exit" /\ result = "panic" /\ panicMsg = PanicIndex)

\* The part of C21 about the rounds that do start.
C21_RoundStartsAligned == pc = "loop" => ListsAligned
====
